---- MODULE Spec2Model ----
(***************************************************************************)
(* A model of yys_clicker.py: configuration loading (main, load_targets,   *)
(* Target.from_mapping, _parse_range), template location (capture_screen,  *)
(* locate_target), click-point sampling (random_point_within_region), the  *)
(* click sequence (perform_click) and the scan loop (run).                 *)
(*                                                                         *)
(* Units: seconds are counted in tenths (0.3 s is 3), correlation scores   *)
(* and confidences in hundredths (0.85 is 85), lengths in pixels.          *)
(* Python's None is the empty tuple <<>>; a tuple is truthy iff non-empty. *)
(***************************************************************************)
EXTENDS Integers, Sequences, FiniteSets, TLC

VARIABLES
    pc,             \* control point of main / run / perform_click
    argv,           \* parsed command line: [scan_interval, confidence]
    raw_data,       \* [file |-> "missing" | "not_array" | "array", items |-> <<raw items>>]
    targets,        \* the loaded Target list
    scan_interval,  \* the validated idle range handed to run
    idx,            \* position of the for loop in targets (1-based)
    box,            \* the box returned by the last locate_target, <<>> if None
    point,          \* (x, y) chosen by perform_click, <<>> outside a click sequence
    pointer,        \* where the mouse pointer is: "corner" (fail-safe point) or "elsewhere"
    FAILSAFE,       \* pyautogui.FAILSAFE
    passLog,        \* operations of the current scan pass, in order
    slept,          \* the last value drawn by choose_random: [kind, v, lo, hi]
    alsoVisible,    \* later-listed targets that would have matched the screen of the last match
    cornerSeen,     \* the pointer reached the fail-safe corner during a click sequence and is still there
    interrupted,    \* a KeyboardInterrupt was delivered
    error,          \* the exception that ended the process, "none" if none
    exitStatus,     \* process exit status, -1 while running
    input,          \* argument of the function under test (function specifications only)
    output          \* its result

vars == <<pc, argv, raw_data, targets, scan_interval, idx, box, point, pointer,
          FAILSAFE, passLog, slept, alsoVisible, cornerSeen, interrupted, error,
          exitStatus, input, output>>

progVars == <<pc, argv, raw_data, targets, scan_interval, idx, box, point, pointer,
              FAILSAFE, passLog, slept, alsoVisible, cornerSeen, interrupted, error,
              exitStatus>>

None == <<>>

----------------------------------------------------------------------------
(* Bounds of the model *)

ScreenWidth == 2
ScreenHeight == 1
UniformSteps == 2
MaxTargets == 2
MaxMargin == 2
MaxDim == 6

(* Program constants *)

DefaultConfidence == 85
DefaultClickMargin == 6
DefaultMoveDurationRange == <<3, 7>>
DefaultPreClickDelayRange == <<1, 4>>
DefaultPostClickDelayRange == <<6, 12>>
DefaultScanInterval == <<3, 6>>
FailSafePoint == <<0, 0>>

Max2(a, b) == IF a >= b THEN a ELSE b
Min2(a, b) == IF a <= b THEN a ELSE b

----------------------------------------------------------------------------
(* random.randint(a, b): any integer of a..b, both ends included *)
randint(a, b) == a .. b

(* random.uniform(a, b) == a + (b - a) * random(), random() sampled at      *)
(* 0, 1/UniformSteps, ..., 1                                               *)
uniform(a, b) == { a + (((b - a) * r) \div UniformSteps) : r \in 0 .. UniformSteps }

choose_random(range_pair) == uniform(range_pair[1], range_pair[2])

----------------------------------------------------------------------------
(* random_point_within_region *)

EffectiveMarginOffByOne(margin, dim) == Min2(margin, Max2((dim \div 2) - 2, 0))

EffectiveMargin(margin, dim) == Min2(margin, Max2((dim \div 2) - 1, 0))

(* the inclusive sampling interval of one axis: lines 200-208 *)
AxisInterval(origin, dim0, margin) ==
    LET dim == Max2(dim0, 1)
        eff == EffectiveMargin(margin, dim)
        lo  == origin + eff
        hi  == origin + dim - eff
    IN  IF lo >= hi THEN <<origin, origin + dim>> ELSE <<lo, hi>>

random_point_within_region(b, margin) ==
    LET xs == AxisInterval(b[1], b[3], margin)
        ys == AxisInterval(b[2], b[4], margin)
    IN  { <<x, y>> : x \in randint(xs[1], xs[2]), y \in randint(ys[1], ys[2]) }

----------------------------------------------------------------------------
(* capture_screen and locate_target *)

Scores == { DefaultConfidence - 1, DefaultConfidence, DefaultConfidence + 1 }

(* shape (rows, columns) of the frame capture_screen returns *)
CaptureShape(region) ==
    IF region = None THEN <<ScreenHeight, ScreenWidth>> ELSE <<region[4], region[3]>>

(* top-left corners at which a tw x th template fits a frame of this shape *)
Alignments(shape, tw, th) ==
    { <<x, y>> : x \in 0 .. (shape[2] - tw), y \in 0 .. (shape[1] - th) }

(* The frames a capture may deliver for a tw x th template.  A frame is    *)
(* its shape and, standing for its pixels, what cv2.matchTemplate and       *)
(* cv2.minMaxLoc (lines 179-180) report on it: the best score and the       *)
(* alignment it is reached at.  fits is FALSE when no alignment exists,     *)
(* where cv2.matchTemplate raises cv2.error.                                *)
capture_screen(region, tw, th) ==
    LET shape == CaptureShape(region)
    IN  IF Alignments(shape, tw, th) = {}
        THEN { [h |-> shape[1], w |-> shape[2], fits |-> FALSE,
                max_val |-> 0, max_loc |-> <<0, 0>>] }
        ELSE { [h |-> shape[1], w |-> shape[2], fits |-> TRUE,
                max_val |-> s, max_loc |-> a] :
                 s \in Scores, a \in Alignments(shape, tw, th) }

BelowThresholdOrEqual(max_val, confidence) == max_val <= confidence

(* line 182: the score is rejected *)
BelowThreshold(max_val, confidence) == max_val < confidence

TooSmallHeightOnly(search_image, target) ==
    search_image.h < target.template_height

(* lines 173-176: the frame cannot hold the template *)
TooSmall(search_image, target) ==
    \/ search_image.h < target.template_height
    \/ search_image.w < target.template_width

(* lines 185-186: the search region's left (axis 1) or top (axis 2) *)
RegionOffset(region, axis) == IF region # None THEN region[axis] ELSE 0

(* Outcome of locate_target on a captured frame: the box (None if not      *)
(* found), the external operations performed, and whether it raised.       *)
locate_target(target, confidence, search_image) ==
    IF TooSmall(search_image, target)
    THEN [box |-> None, ops |-> <<"capture">>, raised |-> FALSE]
    ELSE IF ~search_image.fits
    THEN [box |-> None, ops |-> <<"capture", "matchTemplate">>, raised |-> TRUE]
    ELSE LET max_val == search_image.max_val
             max_loc == search_image.max_loc
             offset_x == RegionOffset(target.search_region, 1)
             offset_y == RegionOffset(target.search_region, 2)
         IN  [box |-> IF BelowThreshold(max_val, confidence)
                      THEN None
                      ELSE <<offset_x + max_loc[1], offset_y + max_loc[2],
                             target.template_width, target.template_height>>,
              ops |-> <<"capture", "matchTemplate">>,
              raised |-> FALSE]

----------------------------------------------------------------------------
(* Configuration: JSON values, Target.from_mapping, load_targets *)

Absent == [tag |-> "absent", v |-> <<>>]
Null == [tag |-> "null", v |-> <<>>]
Arr(s) == [tag |-> "array", v |-> s]
Num(n) == [tag |-> "number", v |-> <<n>>]

Ok(x) == [ok |-> TRUE, v |-> x]
ValueError == [ok |-> FALSE, v |-> <<>>]

(* raw.get(key, default) *)
RawGet(value, default) == IF value.tag = "absent" THEN Arr(default) ELSE value

_parse_range_unchecked(value, fallback) ==
    IF value.tag = "null" THEN Ok(fallback)
    ELSE IF value.tag # "array" \/ Len(value.v) # 2 THEN ValueError
    ELSE Ok(<<value.v[1], value.v[2]>>)

_parse_range(value, fallback) ==
    IF value.tag = "null" THEN Ok(fallback)
    ELSE IF value.tag # "array" \/ Len(value.v) # 2 THEN ValueError
    ELSE IF value.v[1] > value.v[2] THEN ValueError
    ELSE Ok(<<value.v[1], value.v[2]>>)

_parse_region(value) ==
    IF value.tag \in {"null", "absent"} THEN Ok(None)
    ELSE IF value.tag # "array" \/ Len(value.v) # 4 THEN ValueError
    ELSE Ok(value.v)

(* the image files beside the configuration file *)
ImageFile(image) ==
    CASE image = "a.png" -> [exists |-> TRUE, readable |-> TRUE, w |-> 1, h |-> 1]
      [] image = "b.png" -> [exists |-> TRUE, readable |-> TRUE, w |-> 2, h |-> 1]
      [] image = "bad.png" -> [exists |-> TRUE, readable |-> FALSE, w |-> 0, h |-> 0]
      [] OTHER -> [exists |-> FALSE, readable |-> FALSE, w |-> 0, h |-> 0]

(* Target.from_mapping followed by __post_init__ / _load_template *)
from_mapping(raw) ==
    LET region == _parse_region(raw.region)
        mdr == _parse_range(RawGet(raw.move_duration_range, DefaultMoveDurationRange),
                            DefaultMoveDurationRange)
        pre == _parse_range(RawGet(raw.pre_click_delay_range, DefaultPreClickDelayRange),
                            DefaultPreClickDelayRange)
        post == _parse_range(RawGet(raw.post_click_delay_range, DefaultPostClickDelayRange),
                             DefaultPostClickDelayRange)
        file == ImageFile(raw.image)
    IN  IF raw.name = "" \/ raw.image = "" THEN ValueError
        ELSE IF ~file.exists THEN ValueError
        ELSE IF ~region.ok \/ ~mdr.ok \/ ~pre.ok \/ ~post.ok THEN ValueError
        ELSE IF ~file.readable \/ file.w * file.h = 0 THEN ValueError
        ELSE Ok([name |-> raw.name,
                 template_width |-> file.w,
                 template_height |-> file.h,
                 confidence |-> IF raw.confidence.tag = "number"
                                THEN raw.confidence.v[1] ELSE DefaultConfidence,
                 search_region |-> region.v,
                 click_margin |-> IF raw.click_margin.tag = "number"
                                  THEN raw.click_margin.v[1] ELSE DefaultClickMargin,
                 move_duration_range |-> mdr.v,
                 pre_click_delay_range |-> pre.v,
                 post_click_delay_range |-> post.v])

(* load_targets: the exception it raises ("none" if none) and the list *)
load_targets(data) ==
    IF data.file = "missing" THEN [exc |-> "FileNotFoundError", targets |-> <<>>]
    ELSE IF data.file # "array" THEN [exc |-> "ValueError", targets |-> <<>>]
    ELSE IF \E i \in 1 .. Len(data.items) :
                ~data.items[i].is_dict \/ ~from_mapping(data.items[i]).ok
    THEN [exc |-> "ValueError", targets |-> <<>>]
    ELSE [exc |-> "none",
          targets |-> [i \in 1 .. Len(data.items) |-> from_mapping(data.items[i]).v]]

----------------------------------------------------------------------------
(* The inputs: configuration files and command lines *)

BaseItem(image) ==
    [is_dict |-> TRUE, name |-> "t", image |-> image, confidence |-> Absent,
     region |-> Absent, click_margin |-> Absent, move_duration_range |-> Absent,
     pre_click_delay_range |-> Absent, post_click_delay_range |-> Absent]

SmallRegion == <<1, 0, 1, 1>>

RawItems ==
    { BaseItem("a.png"), BaseItem("b.png"), BaseItem("gone.png"), BaseItem("bad.png"),
      BaseItem(""),
      [BaseItem("a.png") EXCEPT !.name = ""],
      [BaseItem("a.png") EXCEPT !.is_dict = FALSE],
      [BaseItem("b.png") EXCEPT !.region = Arr(SmallRegion)],
      [BaseItem("b.png") EXCEPT !.region = Arr(<<1, 0>>)],
      [BaseItem("a.png") EXCEPT !.region = Arr(SmallRegion),
                                !.confidence = Num(DefaultConfidence + 1),
                                !.click_margin = Num(0),
                                !.move_duration_range = Arr(<<3, 3>>),
                                !.pre_click_delay_range = Null],
      [BaseItem("a.png") EXCEPT !.move_duration_range = Arr(<<2, 1>>)],
      [BaseItem("a.png") EXCEPT !.pre_click_delay_range = Arr(<<2, 1>>)],
      [BaseItem("a.png") EXCEPT !.post_click_delay_range = Arr(<<2, 1>>)],
      [BaseItem("a.png") EXCEPT !.post_click_delay_range = Arr(<<3>>)] }

RawConfigs ==
    { [file |-> f, items |-> <<>>] : f \in {"missing", "not_array", "array"} }
    \cup UNION { { [file |-> "array", items |-> s] : s \in [1 .. n -> RawItems] } :
                 n \in 1 .. MaxTargets }

Argvs ==
    { [scan_interval |-> Absent, confidence |-> None],
      [scan_interval |-> Arr(<<2, 2>>), confidence |-> <<DefaultConfidence - 1>>],
      [scan_interval |-> Arr(<<6, 3>>), confidence |-> None],
      [scan_interval |-> Absent, confidence |-> <<0>>],
      [scan_interval |-> Absent, confidence |-> <<101>>] }

----------------------------------------------------------------------------
(* Control points *)

SeqPcs == { "pc_point", "pc_move", "pc_pre", "pc_click", "pc_post" }
RunPcs == { "scan", "idle" } \cup SeqPcs

Entry(op, t, at) == [op |-> op, t |-> t, at |-> at]

Tagged(ops, t) == [i \in 1 .. Len(ops) |-> Entry(ops[i], t, None)]

NoSleep == [kind |-> "none", v |-> 0, lo |-> 0, hi |-> 0]
Slept(kind, v, range_pair) == [kind |-> kind, v |-> v, lo |-> range_pair[1], hi |-> range_pair[2]]

(* line 236: confidence_override or target.confidence *)
Threshold(confidence_override, target) ==
    IF confidence_override # None /\ confidence_override[1] # 0
    THEN confidence_override[1]
    ELSE target.confidence

run_catches_everything(exc) == TRUE

(* line 245: the only exception run handles *)
run_catches(exc) == exc = "KeyboardInterrupt"

(* an exception raised inside run's try block *)
RaiseInRun(exc) ==
    IF run_catches(exc)
    THEN /\ pc' = "stopped"
         /\ UNCHANGED <<error, exitStatus>>
    ELSE /\ pc' = "done"
         /\ error' = exc
         /\ exitStatus' = 1

AfterLocateIdleOnAnyMiss(b, i, n) ==
    IF b # None THEN <<"pc_point", i>> ELSE <<"idle", i>>

(* lines 235-243: where the for/else goes after locate_target returned b    *)
(* for the i-th of n targets                                                *)
AfterLocate(b, i, n) ==
    IF b # None THEN <<"pc_point", i>>
    ELSE IF i < n THEN <<"scan", i + 1>>
    ELSE <<"idle", i>>

AfterClickNoBreak(i, n) == IF i < n THEN <<"scan", i + 1>> ELSE <<"idle", i>>

(* line 241: break, then the next iteration of while True *)
AfterClick(i, n) == <<"scan", 1>>

(* failSafeCheck() of pyautogui, run on entry to moveTo and click *)
FailSafeTriggered == FAILSAFE /\ pointer = "corner"

PointerAt(p) == IF p = FailSafePoint THEN "corner" ELSE "elsewhere"

----------------------------------------------------------------------------
(* main *)

ProgInit ==
    /\ pc = "main_load"
    /\ targets = <<>>
    /\ scan_interval = None
    /\ idx = 0
    /\ box = None
    /\ point = None
    /\ pointer = "elsewhere"
    /\ FAILSAFE = FALSE
    /\ passLog = <<>>
    /\ slept = NoSleep
    /\ alsoVisible = {}
    /\ cornerSeen = FALSE
    /\ interrupted = FALSE
    /\ error = "none"
    /\ exitStatus = -1

Init ==
    /\ argv \in Argvs
    /\ raw_data \in RawConfigs
    /\ ProgInit
    /\ input = None
    /\ output = None

Exit(status) ==
    /\ pc' = "done"
    /\ exitStatus' = status

(* lines 277-291 *)
MainLoadTargets ==
    /\ pc = "main_load"
    /\ LET loaded == load_targets(raw_data)
       IN  IF loaded.exc # "none" \/ loaded.targets = <<>>
           THEN Exit(2) /\ UNCHANGED targets
           ELSE /\ targets' = loaded.targets
                /\ pc' = "main_scan_interval"
                /\ UNCHANGED exitStatus
    /\ UNCHANGED <<argv, raw_data, scan_interval, idx, box, point, pointer, FAILSAFE,
                   passLog, slept, alsoVisible, cornerSeen, interrupted, error,
                   input, output>>

(* line 293: outside every try block, a ValueError ends the process *)
MainParseScanInterval ==
    /\ pc = "main_scan_interval"
    /\ LET parsed == _parse_range(RawGet(argv.scan_interval, DefaultScanInterval),
                                  DefaultScanInterval)
       IN  IF parsed.ok
           THEN /\ scan_interval' = parsed.v
                /\ pc' = "main_confidence"
                /\ UNCHANGED <<error, exitStatus>>
           ELSE /\ Exit(1)
                /\ error' = "ValueError"
                /\ UNCHANGED scan_interval
    /\ UNCHANGED <<argv, raw_data, targets, idx, box, point, pointer, FAILSAFE,
                   passLog, slept, alsoVisible, cornerSeen, interrupted,
                   input, output>>

(* lines 294-296 *)
MainCheckConfidence ==
    /\ pc = "main_confidence"
    /\ IF argv.confidence # None
          /\ ~(0 < argv.confidence[1] /\ argv.confidence[1] <= 100)
       THEN Exit(2)
       ELSE pc' = "run_start" /\ UNCHANGED exitStatus
    /\ UNCHANGED <<argv, raw_data, targets, scan_interval, idx, box, point, pointer,
                   FAILSAFE, passLog, slept, alsoVisible, cornerSeen, interrupted,
                   error, input, output>>

(* lines 298, 229-234: run is called and enters its loop *)
RunStart ==
    /\ pc = "run_start"
    /\ FAILSAFE' = TRUE
    /\ pc' = "scan"
    /\ idx' = 1
    /\ UNCHANGED <<argv, raw_data, targets, scan_interval, box, point, pointer,
                   passLog, slept, alsoVisible, cornerSeen, interrupted, error,
                   exitStatus, input, output>>

(* line 299: run returned *)
MainReturn ==
    /\ pc = "stopped"
    /\ Exit(0)
    /\ UNCHANGED <<argv, raw_data, targets, scan_interval, idx, box, point, pointer,
                   FAILSAFE, passLog, slept, alsoVisible, cornerSeen, interrupted,
                   error, input, output>>

----------------------------------------------------------------------------
(* run: the scan loop *)

ThresholdOf(j) == Threshold(argv.confidence, targets[j])

FramesOf(j) ==
    capture_screen(targets[j].search_region,
                   targets[j].template_width, targets[j].template_height)

CanMatch(j) == \E f \in FramesOf(j) : locate_target(targets[j], ThresholdOf(j), f).box # None
CanMiss(j) == \E f \in FramesOf(j) : locate_target(targets[j], ThresholdOf(j), f).box = None

(* what the later-listed targets would do on the screen target i was found on *)
VisibleSets(i) ==
    { S \in SUBSET ((i + 1) .. Len(targets)) :
        \A j \in (i + 1) .. Len(targets) : IF j \in S THEN CanMatch(j) ELSE CanMiss(j) }

(* lines 235-239: one iteration of the for loop, up to the decision *)
RunLocate ==
    /\ pc = "scan"
    /\ \E grab \in {"grabbed", "grab_failed"} :
         IF grab = "grab_failed"
         THEN /\ RaiseInRun("OSError")
              /\ UNCHANGED <<idx, box, passLog, alsoVisible>>
         ELSE \E frame \in FramesOf(idx) :
                LET r    == locate_target(targets[idx], ThresholdOf(idx), frame)
                    next == AfterLocate(r.box, idx, Len(targets))
                    base == IF idx = 1 THEN <<>> ELSE passLog
                IN  IF r.raised
                    THEN /\ passLog' = base \o Tagged(r.ops, idx)
                         /\ RaiseInRun("cv2.error")
                         /\ UNCHANGED <<idx, box, alsoVisible>>
                    ELSE /\ passLog' = base \o Tagged(r.ops, idx) \o
                                       (IF r.box # None
                                        THEN <<Entry("found", idx, None)>> ELSE <<>>)
                         /\ box' = r.box
                         /\ pc' = next[1]
                         /\ idx' = next[2]
                         /\ IF r.box # None
                            THEN alsoVisible' \in VisibleSets(idx)
                            ELSE alsoVisible' = {}
                         /\ UNCHANGED <<error, exitStatus>>
    /\ UNCHANGED <<argv, raw_data, targets, scan_interval, point, pointer, FAILSAFE,
                   slept, cornerSeen, interrupted, input, output>>

(* lines 243-244: the else branch of the for loop *)
RunIdle ==
    /\ pc = "idle"
    /\ \E idle_delay \in choose_random(scan_interval) :
         slept' = Slept("idle", idle_delay, scan_interval)
    /\ passLog' = Append(passLog, Entry("idle_sleep", 0, None))
    /\ pc' = "scan"
    /\ idx' = 1
    /\ UNCHANGED <<argv, raw_data, targets, scan_interval, box, point, pointer,
                   FAILSAFE, alsoVisible, cornerSeen, interrupted, error, exitStatus,
                   input, output>>

(* line 218 *)
PerformClickPoint ==
    /\ pc = "pc_point"
    /\ \E p \in random_point_within_region(box, targets[idx].click_margin) :
         /\ point' = p
         /\ passLog' = Append(passLog, Entry("point", idx, p))
    /\ pc' = "pc_move"
    /\ cornerSeen' = (pointer = "corner")
    /\ UNCHANGED <<argv, raw_data, targets, scan_interval, idx, box, pointer, FAILSAFE,
                   slept, alsoVisible, interrupted, error, exitStatus, input, output>>

(* lines 220-221: pyautogui.moveTo checks the fail-safe on entry and at     *)
(* every step of the move; a move the OS rejects raises                     *)
PerformClickMove ==
    /\ pc = "pc_move"
    /\ \E move_duration \in choose_random(targets[idx].move_duration_range) :
         slept' = Slept("move", move_duration, targets[idx].move_duration_range)
    /\ IF FailSafeTriggered
       THEN /\ RaiseInRun("FailSafeException")
            /\ UNCHANGED <<pointer, passLog, cornerSeen>>
       ELSE \E outcome \in {"moved", "rejected", "user_corner"} :
              IF outcome = "moved"
              THEN /\ pointer' = PointerAt(point)
                   /\ passLog' = Append(passLog, Entry("moveTo", idx, point))
                   /\ pc' = "pc_pre"
                   /\ UNCHANGED <<cornerSeen, error, exitStatus>>
              ELSE IF outcome = "rejected"
              THEN /\ RaiseInRun("PyAutoGUIException")
                   /\ UNCHANGED <<pointer, passLog, cornerSeen>>
              ELSE /\ pointer' = "corner"
                   /\ cornerSeen' = TRUE
                   /\ passLog' = Append(passLog, Entry("moveTo", idx, point))
                   /\ RaiseInRun("FailSafeException")
    /\ UNCHANGED <<argv, raw_data, targets, scan_interval, idx, box, point, FAILSAFE,
                   alsoVisible, interrupted, input, output>>

(* line 223: time.sleep looks at nothing *)
PerformClickPreDelay ==
    /\ pc = "pc_pre"
    /\ \E d \in choose_random(targets[idx].pre_click_delay_range) :
         slept' = Slept("pre", d, targets[idx].pre_click_delay_range)
    /\ passLog' = Append(passLog, Entry("pre_sleep", idx, None))
    /\ pc' = "pc_click"
    /\ UNCHANGED <<argv, raw_data, targets, scan_interval, idx, box, point, pointer,
                   FAILSAFE, alsoVisible, cornerSeen, interrupted, error, exitStatus,
                   input, output>>

(* line 224: pyautogui.click(x, y) checks the fail-safe on entry *)
PerformClickClick ==
    /\ pc = "pc_click"
    /\ IF FailSafeTriggered
       THEN /\ RaiseInRun("FailSafeException")
            /\ UNCHANGED <<pointer, passLog>>
       ELSE \E outcome \in {"clicked", "rejected"} :
              IF outcome = "clicked"
              THEN /\ pointer' = PointerAt(point)
                   /\ passLog' = Append(passLog, Entry("click", idx, point))
                   /\ pc' = "pc_post"
                   /\ UNCHANGED <<error, exitStatus>>
              ELSE /\ RaiseInRun("PyAutoGUIException")
                   /\ UNCHANGED <<pointer, passLog>>
    /\ UNCHANGED <<argv, raw_data, targets, scan_interval, idx, box, point, FAILSAFE,
                   slept, alsoVisible, cornerSeen, interrupted, input, output>>

(* lines 225, 241: the post-click sleep, the return and the break *)
PerformClickPostDelay ==
    /\ pc = "pc_post"
    /\ \E d \in choose_random(targets[idx].post_click_delay_range) :
         slept' = Slept("post", d, targets[idx].post_click_delay_range)
    /\ passLog' = Append(passLog, Entry("post_sleep", idx, None))
    /\ LET next == AfterClick(idx, Len(targets))
       IN  pc' = next[1] /\ idx' = next[2]
    /\ point' = None
    /\ UNCHANGED <<argv, raw_data, targets, scan_interval, box, pointer, FAILSAFE,
                   alsoVisible, cornerSeen, interrupted, error, exitStatus,
                   input, output>>

(* the user moves the mouse to or away from the fail-safe corner *)
UserMovesPointer ==
    /\ pc \in RunPcs
    /\ pointer' = IF pointer = "corner" THEN "elsewhere" ELSE "corner"
    /\ cornerSeen' = (pointer' = "corner" /\ pc \in SeqPcs)
    /\ UNCHANGED <<pc, argv, raw_data, targets, scan_interval, idx, box, point,
                   FAILSAFE, passLog, slept, alsoVisible, interrupted, error,
                   exitStatus, input, output>>

(* Ctrl+C while run is inside its try block: lines 245-246 *)
KeyboardInterrupt ==
    /\ pc \in RunPcs
    /\ interrupted' = TRUE
    /\ RaiseInRun("KeyboardInterrupt")
    /\ UNCHANGED <<argv, raw_data, targets, scan_interval, idx, box, point, pointer,
                   FAILSAFE, passLog, slept, alsoVisible, cornerSeen, input, output>>

Next ==
    \/ MainLoadTargets
    \/ MainParseScanInterval
    \/ MainCheckConfidence
    \/ RunStart
    \/ MainReturn
    \/ RunLocate
    \/ RunIdle
    \/ PerformClickPoint
    \/ PerformClickMove
    \/ PerformClickPreDelay
    \/ PerformClickClick
    \/ PerformClickPostDelay
    \/ UserMovesPointer
    \/ KeyboardInterrupt

Spec == Init /\ [][Next]_vars

----------------------------------------------------------------------------
(* Specifications of single functions: the program stays where it is, the   *)
(* function is applied to an argument drawn by the initial state.           *)

FunctionInit ==
    /\ argv = [scan_interval |-> Absent, confidence |-> None]
    /\ raw_data = [file |-> "array", items |-> <<>>]
    /\ ProgInit

Origins == { 0, 5 }

PointInputs ==
    [box : { <<l, t, w, h>> : l \in Origins, t \in Origins,
                              w \in 0 .. MaxDim, h \in 0 .. MaxDim },
     margin : 0 .. MaxMargin]

InitPoint ==
    /\ FunctionInit
    /\ input \in PointInputs
    /\ output = None

SamplePoint ==
    /\ output = None
    /\ output' \in random_point_within_region(input.box, input.margin)
    /\ UNCHANGED <<progVars, input>>

SpecPoint == InitPoint /\ [][SamplePoint]_vars

LocateTarget(tw, th, region) ==
    [name |-> "t", template_width |-> tw, template_height |-> th,
     confidence |-> DefaultConfidence, search_region |-> region,
     click_margin |-> DefaultClickMargin,
     move_duration_range |-> DefaultMoveDurationRange,
     pre_click_delay_range |-> DefaultPreClickDelayRange,
     post_click_delay_range |-> DefaultPostClickDelayRange]

LocateInputs ==
    [target : { LocateTarget(tw, th, region) :
                  tw \in 1 .. 2, th \in 1 .. 2,
                  region \in { None, SmallRegion, <<2, 1, 3, 2>> } },
     confidence : Scores]

InitLocate ==
    /\ FunctionInit
    /\ input \in LocateInputs
    /\ output = None

LocateOnce ==
    /\ output = None
    /\ \E frame \in capture_screen(input.target.search_region,
                                   input.target.template_width,
                                   input.target.template_height) :
         output' = [frame |-> frame,
                    result |-> locate_target(input.target, input.confidence, frame)]
    /\ UNCHANGED <<progVars, input>>

SpecLocate == InitLocate /\ [][LocateOnce]_vars

----------------------------------------------------------------------------
(* Reading the log of the current pass *)

Indices(op) == { i \in 1 .. Len(passLog) : passLog[i].op = op }
Captured == { passLog[i].t : i \in Indices("capture") }
LastOp == IF passLog = <<>> THEN "none" ELSE passLog[Len(passLog)].op
IsCapture(e) == e.op = "capture"
SeqOps == { "point", "moveTo", "pre_sleep", "click", "post_sleep" }
ClickSteps == <<"found", "point", "moveTo", "pre_sleep", "click", "post_sleep">>
AllTargets == 1 .. Len(targets)

----------------------------------------------------------------------------
(* C1: in every scan pass the targets are captured in list order, each at   *)
(* most once; the pass ends at the first target for which locate_target     *)
(* returns a box: that target, and no other, gets the click sequence (at    *)
(* most one click in the pass), and no later-listed target is captured,     *)
(* matched or clicked in that pass, whether or not it would have matched.   *)
FirstMatchEndsPass ==
    LET caps == SelectSeq(passLog, IsCapture)
    IN  /\ \A k \in 1 .. Len(caps) : caps[k].t = k
        /\ Cardinality(Indices("found")) <= 1
        /\ Cardinality(Indices("click")) <= 1
        /\ \A i \in Indices("found") :
             /\ passLog[i].t = Len(caps)
             /\ \A j \in 1 .. Len(passLog) :
                  /\ j < i => passLog[j].op \in {"capture", "matchTemplate"}
                  /\ j > i => passLog[j].op \in SeqOps /\ passLog[j].t = passLog[i].t
             /\ alsoVisible \subseteq (passLog[i].t + 1) .. Len(targets)
             /\ alsoVisible \cap Captured = {}
        /\ \A i \in 1 .. Len(passLog) :
             passLog[i].op \in SeqOps => Indices("found") # {}
        /\ pc \in SeqPcs =>
             \E i \in Indices("found") : passLog[i].t = idx /\ box # None
        /\ pc = "pc_post" => \E i \in Indices("click") : passLog[i].t = idx

(* C1 witness: the first of two targets was clicked while the second would  *)
(* have matched the same screen, and the second was not captured            *)
FirstMatchEndsPassWitness ==
    /\ pc = "pc_post"
    /\ Len(targets) = 2
    /\ idx = 1
    /\ 2 \in alsoVisible
    /\ Captured = {1}
    /\ Indices("click") # {}

(* C2: the idle delay is taken exactly when a pass examined every target    *)
(* and none matched: then run sleeps once, for a value of the scan-interval *)
(* range, and the next pass starts at the first target; a pass in which a   *)
(* target matched takes no idle delay and is followed, right after the      *)
(* click sequence, by a pass starting at the first target.                  *)
IdleOnlyAfterExhaustedPass ==
    /\ \A i \in Indices("idle_sleep") :
         /\ i = Len(passLog)
         /\ Indices("found") = {}
         /\ Captured = AllTargets
         /\ slept.kind = "idle"
         /\ pc \in RunPcs => pc = "scan" /\ idx = 1
    /\ slept.kind = "idle" =>
         /\ <<slept.lo, slept.hi>> = scan_interval
         /\ slept.lo <= slept.v /\ slept.v <= slept.hi
    /\ pc = "idle" =>
         /\ Indices("found") = {}
         /\ Indices("idle_sleep") = {}
         /\ Captured = AllTargets
    /\ ( /\ pc \in RunPcs
         /\ targets # <<>>
         /\ Captured = AllTargets
         /\ Indices("found") = {}
         /\ Indices("idle_sleep") = {} ) => pc = "idle"
    /\ Indices("found") # {} => pc # "idle" /\ Indices("idle_sleep") = {}
    /\ (LastOp = "post_sleep" /\ pc \in RunPcs) => pc = "scan" /\ idx = 1

(* C2 witness: two targets, neither matched, the idle sleep was taken with  *)
(* a value strictly inside the range, and the loop is back at target one    *)
IdleOnlyAfterExhaustedPassWitness ==
    /\ LastOp = "idle_sleep"
    /\ Len(targets) = 2
    /\ Captured = {1, 2}
    /\ pc = "scan"
    /\ idx = 1
    /\ slept.lo < slept.v /\ slept.v < slept.hi

(* C3: while run executes, Stopped (run returns, main exits 0) is reached   *)
(* if and only if a KeyboardInterrupt was delivered: the loop is left only  *)
(* by an exception, an interrupt at any point of the loop leads straight to *)
(* Stopped, and after it nothing is captured, moved or clicked.             *)
StoppedIffInterrupted ==
    /\ []((pc = "stopped" \/ exitStatus = 0) => (interrupted /\ error = "none"))
    /\ []((pc = "done" /\ interrupted) => exitStatus = 0)
    /\ [](pc \in RunPcs => ENABLED KeyboardInterrupt)
    /\ [][(pc \in RunPcs /\ pc' \notin RunPcs) =>
             \/ interrupted' /\ pc' = "stopped"
             \/ error' # "none" /\ pc' = "done" /\ exitStatus' = 1]_vars
    /\ [][(~interrupted /\ interrupted') => (pc \in RunPcs /\ pc' = "stopped")]_vars
    /\ [][interrupted =>
             /\ pc' \in {"stopped", "done"}
             /\ UNCHANGED <<passLog, pointer, point, box, idx, slept>>]_vars

(* C3 witness: the interrupt came between the pre-click delay and the       *)
(* click; the process has exited with status 0 and no click was made        *)
StoppedIffInterruptedWitness ==
    /\ pc = "done"
    /\ exitStatus = 0
    /\ interrupted
    /\ LastOp = "pre_sleep"

(* the capture of target t is smaller than its template *)
CaptureSmaller(t) ==
    \/ CaptureShape(t.search_region)[1] < t.template_height
    \/ CaptureShape(t.search_region)[2] < t.template_width

AllSmaller ==
    /\ targets # <<>>
    /\ \A j \in AllTargets : CaptureSmaller(targets[j])

(* C5: when the capture for a target is smaller than its template,          *)
(* locate_target returns None without raising and without running the      *)
(* correlation; when that holds for every target, each pass is a pass       *)
(* without match: it ends in the idle sleep and another pass starts, with   *)
(* no click and no error raised by the matching.                            *)
SmallCaptureIsNotFound ==
    /\ error # "cv2.error"
    /\ \A i \in 1 .. Len(passLog) :
         (passLog[i].t >= 1 /\ CaptureSmaller(targets[passLog[i].t]))
            => passLog[i].op = "capture"
    /\ AllSmaller =>
         /\ pc \notin SeqPcs
         /\ box = None
         /\ FAILSAFE => error \in {"none", "OSError"}
         /\ \A i \in 1 .. Len(passLog) : passLog[i].op \in {"capture", "idle_sleep"}
         /\ (pc \in RunPcs /\ Captured = AllTargets /\ Indices("idle_sleep") = {})
               => pc = "idle"
         /\ (LastOp = "idle_sleep" /\ pc \in RunPcs) => pc = "scan" /\ idx = 1

(* C5 witness: every capture is smaller than its template, one pass ended   *)
(* in the idle sleep and the next pass has captured its first target        *)
SmallCaptureIsNotFoundWitness ==
    /\ AllSmaller
    /\ Len(targets) = 2
    /\ slept.kind = "idle"
    /\ passLog = <<Entry("capture", 1, None)>>
    /\ pc = "scan"
    /\ idx = 2

(* C10: a click sequence runs its steps once each and in this order: the    *)
(* point is chosen within the box's bounds, the pointer is moved to it, the *)
(* pre-click delay, the click at that same point, the post-click delay;     *)
(* every duration drawn lies in the target's range for that step (a range   *)
(* with min = max yields exactly that value); nothing is captured in        *)
(* between, and a move or click that fails ends the process, not retried.   *)
ClickSequenceInOrder ==
    /\ \A i \in Indices("found") :
         LET tail == SubSeq(passLog, i, Len(passLog))
             t == passLog[i].t
         IN  /\ Len(tail) <= Len(ClickSteps)
             /\ \A k \in 1 .. Len(tail) : tail[k].op = ClickSteps[k] /\ tail[k].t = t
             /\ \A k \in 1 .. Len(tail) :
                  tail[k].op \in {"point", "moveTo", "click"} =>
                     /\ tail[k].at = tail[2].at
                     /\ box[1] <= tail[k].at[1] /\ tail[k].at[1] <= box[1] + box[3]
                     /\ box[2] <= tail[k].at[2] /\ tail[k].at[2] <= box[2] + box[4]
             /\ (LastOp = "moveTo" /\ pc = "pc_pre") =>
                  /\ slept.kind = "move"
                  /\ <<slept.lo, slept.hi>> = targets[t].move_duration_range
             /\ LastOp = "pre_sleep" =>
                  /\ slept.kind = "pre"
                  /\ <<slept.lo, slept.hi>> = targets[t].pre_click_delay_range
             /\ LastOp = "post_sleep" =>
                  /\ slept.kind = "post"
                  /\ <<slept.lo, slept.hi>> = targets[t].post_click_delay_range
                  /\ Len(tail) = Len(ClickSteps)
    /\ slept.kind # "none" =>
         /\ slept.lo <= slept.v /\ slept.v <= slept.hi
         /\ slept.lo = slept.hi => slept.v = slept.lo
    /\ pc = "pc_point" => LastOp = "found"
    /\ pc = "pc_move" => LastOp = "point" /\ point = passLog[Len(passLog)].at
    /\ pc = "pc_pre" => LastOp = "moveTo"
    /\ pc = "pc_click" => LastOp = "pre_sleep"
    /\ pc = "pc_post" => LastOp = "click"
    /\ error \in {"PyAutoGUIException", "FailSafeException"} =>
         pc = "done" /\ exitStatus = 1

(* C10 witness: a complete click sequence on a target whose move-duration   *)
(* range is degenerate                                                      *)
ClickSequenceInOrderWitness ==
    /\ LastOp = "post_sleep"
    /\ Len(passLog) >= Len(ClickSteps)
    /\ pc = "scan"
    /\ \E i \in Indices("found") :
         /\ targets[passLog[i].t].move_duration_range = <<3, 3>>
         /\ passLog[i + 2].op = "moveTo"
         /\ passLog[i + 4].at = passLog[i + 1].at

----------------------------------------------------------------------------
(* Claims about locate_target and random_point_within_region, stated on     *)
(* the function specifications                                              *)

(* C4: for a capture at least as large as the template, locate_target       *)
(* returns None exactly when the best score is strictly below the           *)
(* threshold, and otherwise (score = threshold included) the box whose      *)
(* width and height are the template's and whose left/top are the best      *)
(* alignment's position plus the search region's left/top (0 without a      *)
(* region).                                                                 *)
ThresholdDecidesBox ==
    output # None =>
      LET target == input.target
          frame  == output.frame
          found  == output.result.box
          left   == IF target.search_region = None THEN 0 ELSE target.search_region[1]
          top    == IF target.search_region = None THEN 0 ELSE target.search_region[2]
      IN  (frame.h >= target.template_height /\ frame.w >= target.template_width) =>
            /\ ~output.result.raised
            /\ frame.max_val < input.confidence => found = None
            /\ frame.max_val >= input.confidence =>
                 found = <<frame.max_loc[1] + left, frame.max_loc[2] + top,
                           target.template_width, target.template_height>>

(* C4 witness: a region-restricted capture whose best score equals the      *)
(* threshold, at an alignment other than the origin, gave a box             *)
ThresholdDecidesBoxWitness ==
    /\ output # None
    /\ input.target.search_region # None
    /\ output.frame.max_val = input.confidence
    /\ output.frame.max_loc = <<1, 1>>
    /\ output.result.box # None

(* C6: for width >= 2*margin+2 and height >= 2*margin+2 (margin >= 0) every *)
(* sampled point satisfies left+margin <= x <= left+width-margin and        *)
(* top+margin <= y <= top+height-margin: the effective margin is the        *)
(* configured margin on both axes.                                          *)
PointInShrunkRectangle ==
    output # None =>
      LET left == input.box[1]
          top == input.box[2]
          width == input.box[3]
          height == input.box[4]
          margin == input.margin
      IN  (margin >= 0 /\ width >= 2 * margin + 2 /\ height >= 2 * margin + 2) =>
            /\ left + margin <= output[1] /\ output[1] <= left + width - margin
            /\ top + margin <= output[2] /\ output[2] <= top + height - margin

(* C6 witness: the tightest box for the largest margin, sampled on the      *)
(* upper ends of both intervals                                             *)
PointInShrunkRectangleWitness ==
    /\ output # None
    /\ input.margin = MaxMargin
    /\ input.box[3] = 2 * input.margin + 2
    /\ input.box[4] = 2 * input.margin + 2
    /\ output[1] = input.box[1] + input.box[3] - input.margin
    /\ output[2] = input.box[2] + input.box[4] - input.margin

(* C7, as claimed: for a box with width >= 1 and height >= 1 that is        *)
(* smaller than 2*margin+2 in width or height, every sampled point lies on  *)
(* a pixel the box covers: left <= x <= left+width-1 and                    *)
(* top <= y <= top+height-1.                                                *)
DegeneratePointOnBox ==
    output # None =>
      LET left == input.box[1]
          top == input.box[2]
          width == input.box[3]
          height == input.box[4]
          margin == input.margin
      IN  ( /\ width >= 1 /\ height >= 1
            /\ (width < 2 * margin + 2 \/ height < 2 * margin + 2) ) =>
            /\ left <= output[1] /\ output[1] <= left + width - 1
            /\ top <= output[2] /\ output[2] <= top + height - 1

----------------------------------------------------------------------------
(* Claims the code does not meet *)

RangeInverted(value) ==
    value.tag = "array" /\ Len(value.v) = 2 /\ value.v[1] > value.v[2]

(* C8, as claimed: when a target record is malformed or has a range with    *)
(* min > max, when the target list is empty, or when the scan-interval pair *)
(* has min > max, run is never called and main returns exit status 2.       *)
ConfigErrorExitsTwo ==
    ( \/ load_targets(raw_data).exc # "none"
      \/ load_targets(raw_data).targets = <<>>
      \/ RangeInverted(argv.scan_interval) ) =>
        /\ pc \notin RunPcs \cup {"run_start", "stopped"}
        /\ ~FAILSAFE
        /\ passLog = <<>>
        /\ pc = "done" => exitStatus = 2

(* C9, as claimed: when the pointer has reached the fail-safe corner       *)
(* during a click sequence (and stays there), the action is aborted:        *)
(* nothing more is clicked and nothing more is captured, so no later step   *)
(* of the sequence and no further scan pass runs.                           *)
FailSafeAbortsImmediately ==
    [][cornerSeen =>
         /\ ~(pc = "pc_click" /\ pc' = "pc_post")
         /\ ~(pc = "scan" /\ passLog' # passLog)]_vars

====
